---- MODULE Spec2Model ----
(***************************************************************************)
(* A model of the Linode provider for libdns (client.go): the translation  *)
(* between Linode wire records and libdns records, the record operations   *)
(* (list, create-or-update, delete) against the remote store, and the      *)
(* one-time construction of the remote client handle.                      *)
(*                                                                         *)
(* A Go string is modelled as a sequence of one-character strings, so that *)
(* splitting, trimming and number parsing are computed, not assumed.       *)
(* A time.Duration is modelled in milliseconds (Second == 1000).           *)
(***************************************************************************)
EXTENDS Integers, Sequences, FiniteSets, TLC

VARIABLES
    store,      \* remote store: the sequence of wire records of the domain
    op,         \* the last record operation: its name, input, remote calls and outcome
    wire,       \* translator: the wire record under translation
    src,        \* translator: the libdns record being encoded
    out,        \* translator: the libdns record last decoded
    phase,      \* translator: which step has acted
    cfg,        \* Provider fields APIToken, APIURL, APIVersion
    pc,         \* init: each caller's position inside p.once.Do
    calls,      \* init: how many times each caller has entered init
    done,       \* sync.Once: the done flag
    mu,         \* sync.Once: the mutex holder (0 when free)
    client,     \* p.client: the remote client handle
    built       \* init: how often each step of the construction has run

vars == <<store, op, wire, src, out, phase, cfg, pc, calls, done, mu, client, built>>

---------------------------------------------------------------------------
(* Bounds of the model *)

MaxStore == 2
NumProcs == 2
MaxCalls == 2

---------------------------------------------------------------------------
(* Go strings: strings, strconv *)

Digits == <<"0", "1", "2", "3", "4", "5", "6", "7", "8", "9">>
Lower == <<"a", "b", "c", "d", "e", "f", "g", "h", "i", "j", "k", "l", "m",
           "n", "o", "p", "q", "r", "s", "t", "u", "v", "w", "x", "y", "z">>
Upper == <<"A", "B", "C", "D", "E", "F", "G", "H", "I", "J", "K", "L", "M",
           "N", "O", "P", "Q", "R", "S", "T", "U", "V", "W", "X", "Y", "Z">>

IsDigit(c) == \E i \in 1..10 : Digits[i] = c
DigitVal(c) == (CHOOSE i \in 1..10 : Digits[i] = c) - 1

\* unicode.IsSpace, for the characters the model's strings use
IsSpace(c) == c \in {" ", "\t", "\n"}

\* strings.Index for a one-character separator: 0 when absent
IndexOf(s, c) ==
    IF \E i \in 1..Len(s) : s[i] = c
    THEN CHOOSE i \in 1..Len(s) : s[i] = c /\ \A j \in 1..(i - 1) : s[j] # c
    ELSE 0

HasPrefix(s, p) == Len(s) >= Len(p) /\ SubSeq(s, 1, Len(p)) = p
HasSuffix(s, p) == Len(s) >= Len(p) /\ SubSeq(s, Len(s) - Len(p) + 1, Len(s)) = p
TrimPrefix(s, p) == IF HasPrefix(s, p) THEN SubSeq(s, Len(p) + 1, Len(s)) ELSE s
TrimSuffix(s, p) == IF HasSuffix(s, p) THEN SubSeq(s, 1, Len(s) - Len(p)) ELSE s

UpperChar(c) ==
    IF \E i \in 1..26 : Lower[i] = c
    THEN Upper[CHOOSE i \in 1..26 : Lower[i] = c]
    ELSE c
ToUpper(s) == [i \in 1..Len(s) |-> UpperChar(s[i])]

\* strings.SplitN(s, sep, n) for n > 0 and a one-character sep: at most n
\* parts, the last one the unsplit remainder
RECURSIVE SplitN(_, _, _)
SplitN(s, sep, n) ==
    IF n = 1 \/ IndexOf(s, sep) = 0 THEN <<s>>
    ELSE <<SubSeq(s, 1, IndexOf(s, sep) - 1)>>
         \o SplitN(SubSeq(s, IndexOf(s, sep) + 1, Len(s)), sep, n - 1)

\* strings.Split(s, sep): every part
Split(s, sep) == SplitN(s, sep, Len(s) + 1)

\* length of the leading run of non-space characters
RECURSIVE WordLen(_)
WordLen(s) ==
    IF s = <<>> \/ IsSpace(Head(s)) THEN 0 ELSE 1 + WordLen(Tail(s))

\* strings.Fields: the maximal runs of non-space characters
RECURSIVE Fields(_)
Fields(s) ==
    IF s = <<>> THEN <<>>
    ELSE IF IsSpace(Head(s)) THEN Fields(Tail(s))
    ELSE <<SubSeq(s, 1, WordLen(s))>> \o Fields(SubSeq(s, WordLen(s) + 1, Len(s)))

RECURSIVE DigitsVal(_)
DigitsVal(s) ==
    IF s = <<>> THEN 0
    ELSE 10 * DigitsVal(SubSeq(s, 1, Len(s) - 1)) + DigitVal(s[Len(s)])

AllDigits(s) == s # <<>> /\ \A i \in 1..Len(s) : IsDigit(s[i])

\* strconv.Atoi: an optional sign and at least one decimal digit (the model's
\* numerals stay far below the 64-bit range check)
AtoiOk(s) ==
    IF s # <<>> /\ s[1] \in {"+", "-"} THEN AllDigits(Tail(s)) ELSE AllDigits(s)
AtoiVal(s) ==
    IF s[1] = "-" THEN 0 - DigitsVal(Tail(s))
    ELSE IF s[1] = "+" THEN DigitsVal(Tail(s))
    ELSE DigitsVal(s)

RECURSIVE ItoaNat(_)
ItoaNat(n) ==
    IF n < 10 THEN <<Digits[n + 1]>>
    ELSE ItoaNat(n \div 10) \o <<Digits[(n % 10) + 1]>>
\* strconv.Itoa
Itoa(n) == IF n < 0 THEN <<"-">> \o ItoaNat(0 - n) ELSE ItoaNat(n)

\* Go's conversions uint16(x) and uint8(x) of an int
Uint16(x) == x % 65536
Uint8(x) == x % 256

RECURSIVE Join(_, _)
Join(parts, sep) ==
    IF parts = <<>> THEN <<>>
    ELSE IF Len(parts) = 1 THEN parts[1]
    ELSE parts[1] \o sep \o Join(Tail(parts), sep)

---------------------------------------------------------------------------
(* net/netip: ParseAddr, for dotted-quad IPv4 and hex-group IPv6 literals  *)
(* (the model's inputs hold no zone suffix and no IPv4-in-IPv6 literal)    *)

HexDigits == Digits \o SubSeq(Lower, 1, 6)
IsHex(c) == \E i \in 1..16 : HexDigits[i] = c \/ UpperChar(HexDigits[i]) = c
HexVal(c) ==
    (CHOOSE i \in 1..16 : HexDigits[i] = c \/ UpperChar(HexDigits[i]) = c) - 1

RECURSIVE HexGroupVal(_)
HexGroupVal(s) ==
    IF s = <<>> THEN 0
    ELSE 16 * HexGroupVal(SubSeq(s, 1, Len(s) - 1)) + HexVal(s[Len(s)])

\* the zero netip.Addr (not valid)
NoAddr == [v |-> 0, b |-> <<>>]

\* one IPv4 field: 1 to 3 digits, no leading zero, at most 255
OctetOk(f) ==
    /\ AllDigits(f)
    /\ ~(Len(f) > 1 /\ f[1] = "0")
    /\ Len(f) <= 3
    /\ DigitsVal(f) <= 255

parseIPv4(s) ==
    LET f == Split(s, ".") IN
    IF Len(f) = 4 /\ \A i \in 1..4 : OctetOk(f[i])
    THEN [v |-> 4, b |-> [i \in 1..4 |-> DigitsVal(f[i])]]
    ELSE NoAddr

HexGroupOk(g) == Len(g) \in 1..4 /\ \A i \in 1..Len(g) : IsHex(g[i])

\* position of the first "::", 0 when there is none
Ellipsis(s) ==
    IF \E i \in 1..(Len(s) - 1) : s[i] = ":" /\ s[i + 1] = ":"
    THEN CHOOSE i \in 1..(Len(s) - 1) :
            /\ s[i] = ":" /\ s[i + 1] = ":"
            /\ \A j \in 1..(i - 1) : ~(s[j] = ":" /\ s[j + 1] = ":")
    ELSE 0

Groups(s) == IF s = <<>> THEN <<>> ELSE Split(s, ":")

parseIPv6(s) ==
    LET e == Ellipsis(s)
        lg == IF e = 0 THEN Groups(s) ELSE Groups(SubSeq(s, 1, e - 1))
        rg == IF e = 0 THEN <<>> ELSE Groups(SubSeq(s, e + 2, Len(s)))
        n == Len(lg) + Len(rg)
        all == lg \o [i \in 1..(8 - n) |-> <<"0">>] \o rg
    IN
    IF /\ \A i \in 1..Len(lg) : HexGroupOk(lg[i])
       /\ \A i \in 1..Len(rg) : HexGroupOk(rg[i])
       /\ IF e = 0 THEN n = 8 ELSE n <= 7
    THEN [v |-> 6, b |-> [i \in 1..8 |-> HexGroupVal(all[i])]]
    ELSE NoAddr

\* netip.ParseAddr: the first of '.', ':' and '%' decides the family
ParseAddr(s) ==
    LET special == {i \in 1..Len(s) : s[i] \in {".", ":", "%"}}
        first == CHOOSE i \in special : \A j \in special : i <= j
    IN
    IF special = {} THEN NoAddr
    ELSE IF s[first] = "." THEN parseIPv4(s)
    ELSE IF s[first] = ":" THEN parseIPv6(s)
    ELSE NoAddr

IsValid(ip) == ip.v # 0

RECURSIVE HexStr(_)
HexStr(n) ==
    IF n < 16 THEN <<HexDigits[n + 1]>>
    ELSE HexStr(n \div 16) \o <<HexDigits[(n % 16) + 1]>>

\* length of the run of zero groups of b that starts at i
RECURSIVE ZeroRun(_, _)
ZeroRun(b, i) == IF i > Len(b) \/ b[i] # 0 THEN 0 ELSE 1 + ZeroRun(b, i + 1)

\* netip.Addr.String: dotted quad, or lower-case hex groups with the first
\* longest run of two or more zero groups written "::"
AddrString(ip) ==
    IF ip.v = 0 THEN <<"i", "n", "v", "a", "l", "i", "d", " ", "I", "P">>
    ELSE IF ip.v = 4 THEN Join([i \in 1..4 |-> Itoa(ip.b[i])], <<".">>)
    ELSE
        LET b == ip.b
            best == CHOOSE i \in 1..8 :
                        /\ \A j \in 1..8 : ZeroRun(b, j) <= ZeroRun(b, i)
                        /\ \A j \in 1..(i - 1) : ZeroRun(b, j) < ZeroRun(b, i)
            hex == [i \in 1..8 |-> HexStr(b[i])]
        IN
        IF ZeroRun(b, best) < 2 THEN Join(hex, <<":">>)
        ELSE Join(SubSeq(hex, 1, best - 1), <<":">>) \o <<":", ":">>
             \o Join(SubSeq(hex, best + ZeroRun(b, best), 8), <<":">>)

---------------------------------------------------------------------------
(* libdns records.  A record is its Go struct with the dynamic type in     *)
(* kind: Address, TXT, CNAME, MX, SRV, NS, CAA carry ProviderData (type    *)
(* any); RR, the generic record, has no such field.                        *)

\* time.Second, in the model's unit (milliseconds)
Second == 1000

\* values of type any, as far as the code tells them apart
NilValue == [t |-> "nil"]
StringValue(s) == [t |-> "string", s |-> s]
IntValue(n) == [t |-> "int", n |-> n]
MapValue(m) == [t |-> "map", m |-> m]

SpecificKinds == {"Address", "TXT", "CNAME", "MX", "SRV", "NS", "CAA"}

\* libdns.RelativeName: the name with the zone and the dot before it removed
RelativeName(fqdn, zone) == TrimSuffix(TrimSuffix(fqdn, zone), <<".">>)

\* Record.RR() of each kind: the (name, ttl, type, data) form of a record
RR(record) ==
    LET k == record.kind
        sp == <<" ">>
        type ==
            CASE k = "Address" -> IF record.IP.v = 6 THEN <<"A", "A", "A", "A">> ELSE <<"A">>
              [] k = "TXT" -> <<"T", "X", "T">>
              [] k = "CNAME" -> <<"C", "N", "A", "M", "E">>
              [] k = "MX" -> <<"M", "X">>
              [] k = "SRV" -> <<"S", "R", "V">>
              [] k = "NS" -> <<"N", "S">>
              [] k = "CAA" -> <<"C", "A", "A">>
              [] k = "RR" -> record.Type
        data ==
            CASE k = "Address" -> AddrString(record.IP)
              [] k = "TXT" -> record.Text
              [] k \in {"CNAME", "NS"} -> record.Target
              [] k = "MX" -> Itoa(record.Preference) \o sp \o record.Target
              [] k = "SRV" -> Itoa(record.Priority) \o sp \o Itoa(record.Weight) \o sp
                              \o Itoa(record.Port) \o sp \o record.Target
              [] k = "CAA" -> Itoa(record.Flags) \o sp \o record.Tag \o sp \o record.Value
              [] k = "RR" -> record.Data
    IN [Name |-> record.Name, TTL |-> record.TTL, Type |-> type, Data |-> data]

---------------------------------------------------------------------------
(* The translator: wire record -> libdns record *)

\* a variant that stores the identifier as the integer it is
providerDataOfInt(linodeRecord) == MapValue("id" :> IntValue(linodeRecord.ID))

\* the provider data a decoded record gets: {"id": strconv.Itoa(ID)}
providerDataOf(linodeRecord) == MapValue("id" :> StringValue(Itoa(linodeRecord.ID)))

\* the fallback at the end of convertToLibdnsRecord
genericRR(name, ttl, recordType, data) ==
    [kind |-> "RR", Name |-> name, TTL |-> ttl, Type |-> recordType, Data |-> data]

convertAddress(name, ttl, data, providerData, fallback) ==
    IF IsValid(ParseAddr(data))
    THEN [kind |-> "Address", Name |-> name, TTL |-> ttl, IP |-> ParseAddr(data),
          ProviderData |-> providerData]
    ELSE fallback

convertMX(name, ttl, data, providerData, fallback) ==
    LET parts == SplitN(data, " ", 2) IN
    IF Len(parts) = 2 /\ AtoiOk(parts[1])
    THEN [kind |-> "MX", Name |-> name, TTL |-> ttl,
          Preference |-> Uint16(AtoiVal(parts[1])), Target |-> parts[2],
          ProviderData |-> providerData]
    ELSE fallback

\* the service, transport and residual name an SRV record gets from its name
srvName(name) ==
    LET nameParts == SplitN(name, ".", 3) IN
    IF HasPrefix(name, <<"_">>) /\ Len(nameParts) >= 2
    THEN [Service |-> TrimPrefix(nameParts[1], <<"_">>),
          Transport |-> TrimPrefix(nameParts[2], <<"_">>),
          Name |-> IF Len(nameParts) >= 3 THEN nameParts[3] ELSE <<>>]
    ELSE [Service |-> <<>>, Transport |-> <<>>, Name |-> name]

convertSRV(name, ttl, data, providerData, fallback) ==
    LET parts == Fields(data) IN
    IF /\ Len(parts) = 4
       /\ AtoiOk(parts[1]) /\ AtoiOk(parts[2]) /\ AtoiOk(parts[3])
    THEN [kind |-> "SRV", Service |-> srvName(name).Service,
          Transport |-> srvName(name).Transport, Name |-> srvName(name).Name,
          TTL |-> ttl, Priority |-> Uint16(AtoiVal(parts[1])),
          Weight |-> Uint16(AtoiVal(parts[2])), Port |-> Uint16(AtoiVal(parts[3])),
          Target |-> parts[4], ProviderData |-> providerData]
    ELSE fallback

convertCAA(name, ttl, data, providerData, fallback) ==
    LET parts == SplitN(data, " ", 3) IN
    IF Len(parts) = 3 /\ AtoiOk(parts[1])
    THEN [kind |-> "CAA", Name |-> name, TTL |-> ttl, Flags |-> Uint8(AtoiVal(parts[1])),
          Tag |-> parts[2], Value |-> parts[3], ProviderData |-> providerData]
    ELSE fallback

convertToLibdnsRecord(zone, linodeRecord) ==
    LET name == RelativeName(linodeRecord.Name, zone)
        ttl == linodeRecord.TTLSec * Second
        recordType == linodeRecord.Type
        data == linodeRecord.Target
        providerData == providerDataOf(linodeRecord)
        fallback == genericRR(name, ttl, recordType, data)
        upper == ToUpper(recordType)
    IN
    CASE upper \in {<<"A">>, <<"A", "A", "A", "A">>} ->
            convertAddress(name, ttl, data, providerData, fallback)
      [] upper = <<"T", "X", "T">> ->
            [kind |-> "TXT", Name |-> name, TTL |-> ttl, Text |-> data,
             ProviderData |-> providerData]
      [] upper = <<"C", "N", "A", "M", "E">> ->
            [kind |-> "CNAME", Name |-> name, TTL |-> ttl, Target |-> data,
             ProviderData |-> providerData]
      [] upper = <<"M", "X">> -> convertMX(name, ttl, data, providerData, fallback)
      [] upper = <<"S", "R", "V">> -> convertSRV(name, ttl, data, providerData, fallback)
      [] upper = <<"N", "S">> ->
            [kind |-> "NS", Name |-> name, TTL |-> ttl, Target |-> data,
             ProviderData |-> providerData]
      [] upper = <<"C", "A", "A">> -> convertCAA(name, ttl, data, providerData, fallback)
      [] OTHER -> fallback

\* a variant that keeps the caller's record when the types differ
mergeKeepingExisting(zone, existingRecord, linodeRecord) ==
    LET newRecord == convertToLibdnsRecord(zone, linodeRecord) IN
    IF RR(existingRecord).Type = RR(newRecord).Type THEN newRecord ELSE existingRecord

\* mergeWithExistingLibdnsRecord: both branches return the decoded response
mergeWithExistingLibdnsRecord(zone, existingRecord, linodeRecord) ==
    LET newRecord == convertToLibdnsRecord(zone, linodeRecord) IN
    IF RR(existingRecord).Type = RR(newRecord).Type THEN newRecord ELSE newRecord

\* getProviderData: the record's provider data when it is of one of the seven
\* kinds and holds a non-nil map[string]interface{}
getProviderData(record) ==
    IF record.kind \in SpecificKinds /\ record.ProviderData.t = "map"
    THEN [ok |-> TRUE, data |-> record.ProviderData.m]
    ELSE [ok |-> FALSE, data |-> <<>>]

\* a variant that sends the TTL in the duration's own unit
recordOptionsUnscaled(zone, record) ==
    [Type |-> RR(record).Type,
     Name |-> RelativeName(RR(record).Name, zone),
     Target |-> RR(record).Data,
     TTLSec |-> RR(record).TTL]

\* the fields create and update send: type, zone-relative name, data, whole seconds
recordOptions(zone, record) ==
    [Type |-> RR(record).Type,
     Name |-> RelativeName(RR(record).Name, zone),
     Target |-> RR(record).Data,
     TTLSec |-> RR(record).TTL \div Second]

---------------------------------------------------------------------------
(* The remote store and the record operations *)

Zone == <<"z", ".", "i", "o", ".">>

NilRecord == [kind |-> "nil"]
NoWire == [ID |-> 0]
NoError == <<>>

\* errors the remote calls may return
RemoteErrors == {"server error", "rate limited"}

\* the record the server stores and returns for what it is sent: the fields
\* as sent, except that it raises a TTL below its minimum of 30 seconds
serverRecord(id, opts) ==
    [ID |-> id, Type |-> opts.Type, Name |-> opts.Name, Target |-> opts.Target,
     TTLSec |-> IF opts.TTLSec > 0 /\ opts.TTLSec < 30 THEN 30 ELSE opts.TTLSec]

StoreIDs(s) == {s[i].ID : i \in 1..Len(s)}
\* the identifier the server gives a new record
FreshIDs == 41..(41 + MaxStore)
NewID(s) == CHOOSE n \in FreshIDs \ StoreIDs(s) : \A k \in FreshIDs \ StoreIDs(s) : n <= k
IndexOfID(s, id) == CHOOSE i \in 1..Len(s) : s[i].ID = id
RemoveAt(s, i) == SubSeq(s, 1, i - 1) \o SubSeq(s, i + 1, Len(s))

\* the records the remote store may hold at the start: one that decodes to
\* an Address and one that falls back to the generic record
SeedWires ==
    << [ID |-> 7, Type |-> <<"A">>, Name |-> <<"w">>,
        Target |-> <<"1", ".", "2", ".", "3", ".", "4">>, TTLSec |-> 300],
       [ID |-> 10, Type |-> <<"M", "X">>, Name |-> <<>>,
        Target |-> <<"x", " ", "m">>, TTLSec |-> 60] >>

\* the records a caller authors: a TXT record with provider data of every
\* shape the code tells apart (none, a map with a well-formed, malformed,
\* missing or non-string "id", a value that is no map), and a generic record
CallerTXT(providerData) ==
    [kind |-> "TXT", Name |-> <<"w">>, TTL |-> 20 * Second, Text |-> <<"h", "i">>,
     ProviderData |-> providerData]

CallerRecords ==
    { CallerTXT(NilValue),
      [kind |-> "RR", Name |-> <<"w">>, TTL |-> 60 * Second,
       Type |-> <<"m", "x">>, Data |-> <<"5", " ", "m">>],
      CallerTXT(MapValue("id" :> StringValue(<<"7">>))),
      CallerTXT(MapValue("id" :> StringValue(<<"4", "x">>))),
      CallerTXT(MapValue("note" :> StringValue(<<"n">>))),
      CallerTXT(MapValue("id" :> IntValue(7))),
      CallerTXT(StringValue(<<"7">>)) }

\* a variant that skips the records that decode to no specific kind
listedSpecificRecords(zone, linodeRecords) ==
    SelectSeq([i \in 1..Len(linodeRecords) |-> convertToLibdnsRecord(zone, linodeRecords[i])],
              LAMBDA record : record.kind # "RR")

\* listDomainRecords, after a successful remote list: every converted record
\* that is not nil, in order
listedRecords(zone, linodeRecords) ==
    SelectSeq([i \in 1..Len(linodeRecords) |-> convertToLibdnsRecord(zone, linodeRecords[i])],
              LAMBDA record : record # NilRecord)

\* a record as a caller holds it: authored, or taken from a listing
Inputs == CallerRecords \cup {listedRecords(Zone, store)[i] : i \in 1..Len(store)}

\* the end of an operation: what it was given, the remote calls it issued,
\* what it returned, and the store before it
Finish(name, input, issued, record, records, err, remoteErr, resp, panicked, newStore) ==
    /\ op' = [name |-> name, input |-> input, calls |-> issued, record |-> record,
              records |-> records, err |-> err, remoteErr |-> remoteErr,
              resp |-> resp, panicked |-> panicked, before |-> store]
    /\ store' = newStore
    /\ UNCHANGED <<wire, src, out, phase, cfg, pc, calls, done, mu, client, built>>

ListRecords ==
    LET call == [call |-> "ListDomainRecords", id |-> 0, opts |-> NoWire] IN
    \/ Finish("list", NilRecord, <<call>>, NilRecord, listedRecords(Zone, store),
              NoError, NoError, NoWire, FALSE, store)
    \/ \E e \in RemoteErrors :
          Finish("list", NilRecord, <<call>>, NilRecord, <<>>,
                 <<"could not list domain records", e>>, <<e>>, NoWire, FALSE, store)

createDomainRecord(name, record) ==
    LET opts == recordOptions(Zone, record)
        call == [call |-> "CreateDomainRecord", id |-> 0, opts |-> opts]
    IN
    \/ \E e \in RemoteErrors :
          Finish(name, record, <<call>>, NilRecord, <<>>, <<e>>, <<e>>, NoWire, FALSE, store)
    \/ /\ Len(store) < MaxStore
       /\ LET added == serverRecord(NewID(store), opts) IN
             Finish(name, record, <<call>>,
                    mergeWithExistingLibdnsRecord(Zone, record, added), <<>>,
                    NoError, NoError, added, FALSE, Append(store, added))

\* a variant that ignores the parse error and goes on with the zero value
parseRecordIDLenient(recordIDStr) ==
    [ok |-> TRUE, id |-> IF AtoiOk(recordIDStr) THEN AtoiVal(recordIDStr) ELSE 0]

\* strconv.Atoi of the stored identifier
parseRecordID(recordIDStr) ==
    [ok |-> AtoiOk(recordIDStr),
     id |-> IF AtoiOk(recordIDStr) THEN AtoiVal(recordIDStr) ELSE 0]

updateDomainRecord(name, record, recordIDStr) ==
    LET opts == recordOptions(Zone, record)
        recordID == parseRecordID(recordIDStr)
        call == [call |-> "UpdateDomainRecord", id |-> recordID.id, opts |-> opts]
    IN
    IF ~recordID.ok
    THEN Finish(name, record, <<>>, NilRecord, <<>>, <<"strconv.Atoi">>, NoError,
                NoWire, FALSE, store)
    ELSE
        \/ \E e \in RemoteErrors :
              Finish(name, record, <<call>>, NilRecord, <<>>, <<e>>, <<e>>, NoWire,
                     FALSE, store)
        \/ /\ recordID.id \in StoreIDs(store)
           /\ LET updated == serverRecord(recordID.id, opts) IN
                 Finish(name, record, <<call>>,
                        mergeWithExistingLibdnsRecord(Zone, record, updated), <<>>,
                        NoError, NoError, updated, FALSE,
                        [store EXCEPT ![IndexOfID(store, recordID.id)] = updated])

\* the type assertion id.(string) on a value that is no string
Panic(name, record) ==
    Finish(name, record, <<>>, NilRecord, <<>>, NoError, NoError, NoWire, TRUE, store)

\* a variant that looks the identifier up under another key
hasIDUnderOtherKey(record) ==
    getProviderData(record).ok /\ "ID" \in DOMAIN getProviderData(record).data

\* whether createOrUpdateDomainRecord finds an "id" in the record's provider data
hasID(record) ==
    getProviderData(record).ok /\ "id" \in DOMAIN getProviderData(record).data

createOrUpdateDomainRecord(record) ==
    IF hasID(record)
    THEN IF getProviderData(record).data["id"].t # "string"
         THEN Panic("upsert", record)
         ELSE updateDomainRecord("upsert", record, getProviderData(record).data["id"].s)
    ELSE createDomainRecord("upsert", record)

\* a variant that sends the delete without looking for the identifier
deleteDomainRecordUnchecked(record) ==
    LET call == [call |-> "DeleteDomainRecord", id |-> 0, opts |-> NoWire] IN
    \E e \in RemoteErrors :
        Finish("delete", record, <<call>>, NilRecord, <<>>, <<e>>, <<e>>, NoWire,
               FALSE, store)

deleteDomainRecord(record) ==
    LET providerData == getProviderData(record) IN
    IF ~providerData.ok
    THEN Finish("delete", record, <<>>, NilRecord, <<>>,
                <<"record does not have provider data with ID">>, NoError, NoWire,
                FALSE, store)
    ELSE IF "id" \notin DOMAIN providerData.data
    THEN Finish("delete", record, <<>>, NilRecord, <<>>,
                <<"record does not have ID in provider data">>, NoError, NoWire,
                FALSE, store)
    ELSE IF providerData.data["id"].t # "string"
    THEN Panic("delete", record)
    ELSE
        LET recordID == parseRecordID(providerData.data["id"].s)
            call == [call |-> "DeleteDomainRecord", id |-> recordID.id, opts |-> NoWire]
        IN
        IF ~recordID.ok
        THEN Finish("delete", record, <<>>, NilRecord, <<>>, <<"strconv.Atoi">>, NoError,
                    NoWire, FALSE, store)
        ELSE
            \/ \E e \in RemoteErrors :
                  Finish("delete", record, <<call>>, NilRecord, <<>>, <<e>>, <<e>>,
                         NoWire, FALSE, store)
            \/ /\ recordID.id \in StoreIDs(store)
               /\ Finish("delete", record, <<call>>, NilRecord, <<>>, NoError, NoError,
                         NoWire, FALSE, RemoveAt(store, IndexOfID(store, recordID.id)))

Upsert == \E record \in Inputs : createOrUpdateDomainRecord(record)
Delete == \E record \in Inputs : deleteDomainRecord(record)

NoOp ==
    [name |-> "none", input |-> NilRecord, calls |-> <<>>, record |-> NilRecord,
     records |-> <<>>, err |-> NoError, remoteErr |-> NoError, resp |-> NoWire,
     panicked |-> FALSE, before |-> <<>>]

\* the variables of the parts a specification leaves alone
TranslatorIdle == wire = NoWire /\ src = NilRecord /\ out = NilRecord /\ phase = "idle"
OnceIdle ==
    /\ cfg = [APIToken |-> "", APIURL |-> "", APIVersion |-> ""]
    /\ pc = <<>> /\ calls = <<>> /\ done = FALSE /\ mu = 0
    /\ client = NilRecord /\ built = <<>>

Init ==
    /\ \E i \in 1..Len(SeedWires), k \in 0..MaxStore :
          /\ i + k - 1 <= Len(SeedWires)
          /\ store = SubSeq(SeedWires, i, i + k - 1)
    /\ op = NoOp
    /\ TranslatorIdle
    /\ OnceIdle

Next == ListRecords \/ Upsert \/ Delete

Spec == Init /\ [][Next]_vars

---------------------------------------------------------------------------
(* The translator on its own: decoding any wire record, and encoding a     *)
(* libdns record as create and update do and decoding what was sent        *)

sA == <<"A">>
sAAAA == <<"A", "A", "A", "A">>
sTXT == <<"T", "X", "T">>
sCNAME == <<"C", "N", "A", "M", "E">>
sMX == <<"M", "X">>
sSRV == <<"S", "R", "V">>
sNS == <<"N", "S">>
sCAA == <<"C", "A", "A">>

WireTypes ==
    {sA, sAAAA, sTXT, sCNAME, sMX, sSRV, sNS, sCAA,
     <<"m", "x">>, <<"S", "r", "v">>, <<"S", "V", "C", "B">>, <<>>}

WireNames ==
    { <<>>, <<"w">>, <<"w", ".", "z", ".", "i", "o", ".">>,
      <<"_", "s", ".", "_", "t", ".", "h">>,
      <<"_", "s", ".", "_", "t", ".", "h", ".", "k">>,
      <<"_", "s", ".", "_", "t">>, <<"_", "s", ".", "t">>, <<"_", "s">>,
      <<"s", ".", "_", "t", ".", "h">> }

WireTargets ==
    { <<"1", ".", "2", ".", "3", ".", "4">>, <<"1", ".", "2", ".", "3">>,
      <<"1", ".", "2", ".", "3", ".", "2", "5", "6">>,
      <<":", ":", "1">>, <<"F", "e", "8", "0", ":", ":", "1", ":", "0", ":", "0", ":", "a">>,
      <<"1", ":", "2">>,
      <<"1", "0", " ", "m">>, <<"x", " ", "m">>, <<"1", "0">>, <<"1", "0", " ", "m", " ", "n">>,
      <<"-", "1", " ", "m">>, <<"6", "5", "5", "3", "7", " ", "m">>,
      <<"1", " ", "2", " ", "3", " ", "t">>, <<"1", " ", "2", " ", "t">>,
      <<"1", " ", "x", " ", "3", " ", "t">>, <<"1", " ", "2", " ", "3", " ", "t", " ", "u">>,
      <<" ", "1", "\t", "2", " ", " ", "3", " ", "t", " ">>,
      <<"-", "1", " ", "2", " ", "6", "5", "5", "3", "6", " ", "t">>,
      <<"0", " ", "i", " ", "c">>, <<"0", " ", "i">>, <<"x", " ", "i", " ", "c">>,
      <<"2", "5", "7", " ", "i", " ", "c", " ", "d">>,
      <<"h">>, <<>> }

WireInputs ==
    [ID : {7, 108}, Type : WireTypes, Name : WireNames, Target : WireTargets,
     TTLSec : {0, 300}]

\* the libdns records a caller may author, without provider data
SourceNames == { <<>>, <<"w">>, <<"_", "s", ".", "_", "t", ".", "h">>, <<"_", "s", ".", "_", "t">>,
                 <<"w", ".", "z", ".", "i", "o", ".">> }
SourceTTLs == {0, 300 * Second, 1500}
SourceRecords ==
    [kind : {"Address"}, Name : SourceNames, TTL : SourceTTLs,
     IP : {[v |-> 4, b |-> <<203, 0, 113, 5>>], [v |-> 6, b |-> <<0, 0, 0, 0, 0, 0, 0, 1>>],
           [v |-> 6, b |-> <<65152, 0, 0, 0, 1, 0, 0, 10>>], NoAddr},
     ProviderData : {NilValue}]
    \cup [kind : {"TXT"}, Name : SourceNames, TTL : SourceTTLs,
          Text : {<<>>, <<"h", "i">>, <<"a", " ", "b">>}, ProviderData : {NilValue}]
    \cup [kind : {"CNAME", "NS"}, Name : SourceNames, TTL : SourceTTLs,
          Target : {<<>>, <<"h", ".">>}, ProviderData : {NilValue}]
    \cup [kind : {"MX"}, Name : SourceNames, TTL : SourceTTLs, Preference : {0, 10, 65535},
          Target : {<<>>, <<"m">>, <<"m", " ", "n">>}, ProviderData : {NilValue}]
    \cup [kind : {"SRV"}, Service : {<<>>, <<"s">>}, Transport : {<<>>, <<"t">>},
          Name : SourceNames, TTL : SourceTTLs, Priority : {0, 10}, Weight : {20},
          Port : {5060, 65535}, Target : {<<"t">>, <<"t", " ", "u">>, <<>>},
          ProviderData : {NilValue}]
    \cup [kind : {"CAA"}, Name : SourceNames, TTL : SourceTTLs, Flags : {0, 128, 255},
          Tag : {<<"i">>, <<"i", " ", "j">>}, Value : {<<"c">>, <<"a", " ", "b">>, <<>>},
          ProviderData : {NilValue}]

\* the wire record the server holds when it stores what it is sent unchanged
wireRecordFor(id, opts) ==
    [ID |-> id, Type |-> opts.Type, Name |-> opts.Name, Target |-> opts.Target,
     TTLSec |-> opts.TTLSec]

StoreIdle == store = <<>> /\ op = NoOp

TranslatorInit ==
    /\ \/ phase = "wire" /\ wire \in WireInputs /\ src = NilRecord
       \/ phase = "src" /\ src \in SourceRecords /\ wire = NoWire
    /\ out = NilRecord
    /\ StoreIdle
    /\ OnceIdle

\* the fields createDomainRecord and updateDomainRecord send for src
Encode ==
    /\ phase = "src"
    /\ wire' = wireRecordFor(42, recordOptions(Zone, src))
    /\ phase' = "encoded"
    /\ UNCHANGED <<store, op, src, out, cfg, pc, calls, done, mu, client, built>>

Decode ==
    /\ phase \in {"wire", "encoded"}
    /\ out' = convertToLibdnsRecord(Zone, wire)
    /\ phase' = "decoded"
    /\ UNCHANGED <<store, op, wire, src, cfg, pc, calls, done, mu, client, built>>

TranslatorNext == Encode \/ Decode

TranslatorSpec == TranslatorInit /\ [][TranslatorNext]_vars

---------------------------------------------------------------------------
(* Listing on its own, over any short sequence of wire records *)

MaxList == 2

ListWires ==
    { [ID |-> 7, Type |-> sA, Name |-> <<"w">>,
       Target |-> <<"1", ".", "2", ".", "3", ".", "4">>, TTLSec |-> 300],
      [ID |-> 8, Type |-> sAAAA, Name |-> <<"w">>,
       Target |-> <<"1", ".", "2", ".", "3">>, TTLSec |-> 300],
      [ID |-> 9, Type |-> <<"m", "x">>, Name |-> <<>>,
       Target |-> <<"1", "0", " ", "m">>, TTLSec |-> 0],
      [ID |-> 10, Type |-> sMX, Name |-> <<>>, Target |-> <<"x", " ", "m">>, TTLSec |-> 60],
      [ID |-> 11, Type |-> sSRV, Name |-> <<"_", "s", ".", "_", "t", ".", "h">>,
       Target |-> <<"1", " ", "2", " ", "3", " ", "t">>, TTLSec |-> 60],
      [ID |-> 12, Type |-> sSRV, Name |-> <<"_", "s", ".", "_", "t">>,
       Target |-> <<"1", " ", "2", " ", "t">>, TTLSec |-> 60],
      [ID |-> 13, Type |-> sSRV, Name |-> <<"_", "s", ".", "_", "t">>,
       Target |-> <<"1", " ", "x", " ", "3", " ", "t">>, TTLSec |-> 60],
      [ID |-> 14, Type |-> sCAA, Name |-> <<"w">>, Target |-> <<"0", " ", "i">>,
       TTLSec |-> 60],
      [ID |-> 15, Type |-> sCAA, Name |-> <<"w">>, Target |-> <<"x", " ", "i", " ", "c">>,
       TTLSec |-> 60],
      [ID |-> 16, Type |-> <<"S", "V", "C", "B">>, Name |-> <<"w">>,
       Target |-> <<"1", " ", ".">>, TTLSec |-> 60],
      [ID |-> 17, Type |-> sTXT, Name |-> <<"w">>, Target |-> <<"h", "i">>, TTLSec |-> 60] }

RECURSIVE SeqsUpTo(_, _)
SeqsUpTo(S, n) ==
    IF n = 0 THEN {<<>>}
    ELSE SeqsUpTo(S, n - 1)
         \cup {Append(s, x) : s \in {t \in SeqsUpTo(S, n - 1) : Len(t) = n - 1}, x \in S}

ListInit ==
    /\ store \in SeqsUpTo(ListWires, MaxList)
    /\ op = NoOp
    /\ TranslatorIdle
    /\ OnceIdle

ListSpec == ListInit /\ [][ListRecords]_vars

---------------------------------------------------------------------------
(* Provider.init: p.once.Do around the construction of p.client, called by *)
(* NumProcs goroutines, each up to MaxCalls times.  sync.Once.Do loads the *)
(* done flag; when it is unset it locks the mutex, checks the flag again,  *)
(* runs the function, sets the flag and unlocks.                           *)

Procs == 1..NumProcs

\* linodego.NewClient: a handle with no token and the default URL and version
newClient == [Token |-> "", BaseURL |-> "default", APIVersion |-> "default"]

\* the handle init is to leave behind for the Provider's fields
configured(c) ==
    [Token |-> c.APIToken,
     BaseURL |-> IF c.APIURL # "" THEN c.APIURL ELSE "default",
     APIVersion |-> IF c.APIVersion # "" THEN c.APIVersion ELSE "default"]

\* a variant without mutual exclusion
lockNeverHeld == TRUE

\* sync.Mutex: Lock returns only while no goroutine holds the mutex
lockAvailable == mu = 0

Step(p, to) == pc' = [pc EXCEPT ![p] = to]
Ran(what) == built' = [built EXCEPT ![what] = @ + 1]

CallInit(p) ==
    /\ pc[p] = "idle" /\ calls[p] < MaxCalls
    /\ calls' = [calls EXCEPT ![p] = @ + 1]
    /\ Step(p, "load")
    /\ UNCHANGED <<store, op, wire, src, out, phase, cfg, done, mu, client, built>>

\* Once.Do: the fast path
LoadDone(p) ==
    /\ pc[p] = "load"
    /\ Step(p, IF done THEN "returned" ELSE "lock")
    /\ UNCHANGED <<store, op, wire, src, out, phase, cfg, calls, done, mu, client, built>>

\* Once.doSlow: o.m.Lock()
Lock(p) ==
    /\ pc[p] = "lock" /\ lockAvailable
    /\ mu' = p
    /\ Step(p, "check")
    /\ UNCHANGED <<store, op, wire, src, out, phase, cfg, calls, done, client, built>>

\* Once.doSlow: the second look at the flag, under the mutex
CheckDone(p) ==
    /\ pc[p] = "check"
    /\ Step(p, IF done THEN "unlock" ELSE "new")
    /\ UNCHANGED <<store, op, wire, src, out, phase, cfg, calls, done, mu, client, built>>

NewClient(p) ==
    /\ pc[p] = "new"
    /\ client' = newClient
    /\ Ran("new")
    /\ Step(p, "token")
    /\ UNCHANGED <<store, op, wire, src, out, phase, cfg, calls, done, mu>>

SetToken(p) ==
    /\ pc[p] = "token"
    /\ IF cfg.APIToken # ""
       THEN client' = [client EXCEPT !.Token = cfg.APIToken] /\ Ran("token")
       ELSE UNCHANGED <<client, built>>
    /\ Step(p, "url")
    /\ UNCHANGED <<store, op, wire, src, out, phase, cfg, calls, done, mu>>

SetBaseURL(p) ==
    /\ pc[p] = "url"
    /\ IF cfg.APIURL # ""
       THEN client' = [client EXCEPT !.BaseURL = cfg.APIURL] /\ Ran("url")
       ELSE UNCHANGED <<client, built>>
    /\ Step(p, "version")
    /\ UNCHANGED <<store, op, wire, src, out, phase, cfg, calls, done, mu>>

SetAPIVersion(p) ==
    /\ pc[p] = "version"
    /\ IF cfg.APIVersion # ""
       THEN client' = [client EXCEPT !.APIVersion = cfg.APIVersion] /\ Ran("version")
       ELSE UNCHANGED <<client, built>>
    /\ Step(p, "store")
    /\ UNCHANGED <<store, op, wire, src, out, phase, cfg, calls, done, mu>>

\* Once.doSlow: the deferred store of the flag, then the deferred Unlock
StoreDone(p) ==
    /\ pc[p] = "store"
    /\ done' = TRUE
    /\ Step(p, "unlock")
    /\ UNCHANGED <<store, op, wire, src, out, phase, cfg, calls, mu, client, built>>

Unlock(p) ==
    /\ pc[p] = "unlock"
    /\ mu' = 0
    /\ Step(p, "returned")
    /\ UNCHANGED <<store, op, wire, src, out, phase, cfg, calls, done, client, built>>

\* the caller goes on; it may call init again
Return(p) ==
    /\ pc[p] = "returned"
    /\ Step(p, "idle")
    /\ UNCHANGED <<store, op, wire, src, out, phase, cfg, calls, done, mu, client, built>>

OnceInit ==
    /\ cfg \in [APIToken : {"", "tok"}, APIURL : {"", "url"}, APIVersion : {"", "v4"}]
    /\ pc = [p \in Procs |-> "idle"]
    /\ calls = [p \in Procs |-> 0]
    /\ done = FALSE
    /\ mu = 0
    /\ client = NilRecord
    /\ built = [new |-> 0, token |-> 0, url |-> 0, version |-> 0]
    /\ StoreIdle
    /\ TranslatorIdle

OnceNext ==
    \E p \in Procs :
        \/ CallInit(p) \/ LoadDone(p) \/ Lock(p) \/ CheckDone(p) \/ NewClient(p)
        \/ SetToken(p) \/ SetBaseURL(p) \/ SetAPIVersion(p) \/ StoreDone(p)
        \/ Unlock(p) \/ Return(p)

OnceSpec == OnceInit /\ [][OnceNext]_vars

---------------------------------------------------------------------------
(* Properties *)

\* a record that carries provider data with an "id" entry
CarriesID(record) ==
    /\ "ProviderData" \in DOMAIN record
    /\ record.ProviderData.t = "map"
    /\ "id" \in DOMAIN record.ProviderData.m
IDEntry(record) == record.ProviderData.m["id"]
\* ... whose value is a string
CarriesIDString(record) == CarriesID(record) /\ IDEntry(record).t = "string"
\* a record that carries no provider data
CarriesNothing(record) ==
    "ProviderData" \notin DOMAIN record \/ record.ProviderData = NilValue

OnlyCall(what) == Len(op.calls) = 1 /\ op.calls[1].call = what
NoCallOf(what) == \A i \in 1..Len(op.calls) : op.calls[i].call # what

\* C1 as stated: Upsert of a record with an "id" entry in its provider data
\* issues exactly the remote Update, with the id parsed as an integer, and no
\* Create; Upsert of a record without provider data issues exactly the remote
\* Create and no Update.
C1_UpsertRoutesOnID ==
    op.name = "upsert" =>
        /\ CarriesID(op.input) =>
              /\ OnlyCall("UpdateDomainRecord")
              /\ CarriesIDString(op.input) /\ AtoiOk(IDEntry(op.input).s)
              /\ op.calls[1].id = AtoiVal(IDEntry(op.input).s)
        /\ CarriesNothing(op.input) => OnlyCall("CreateDomainRecord")

\* C1 amended: Upsert of a record whose provider data is a map with an "id"
\* entry that is a string parsing as an integer issues exactly the remote
\* Update with that integer and no Create; Upsert of a record without provider
\* data issues exactly the remote Create and no Update.
C1_UpsertRoutesOnParsableID ==
    op.name = "upsert" =>
        /\ (CarriesIDString(op.input) /\ AtoiOk(IDEntry(op.input).s)) =>
              /\ OnlyCall("UpdateDomainRecord")
              /\ NoCallOf("CreateDomainRecord")
              /\ op.calls[1].id = AtoiVal(IDEntry(op.input).s)
        /\ CarriesNothing(op.input) =>
              OnlyCall("CreateDomainRecord") /\ NoCallOf("UpdateDomainRecord")

C1_Witness ==
    /\ op.name = "upsert"
    /\ CarriesIDString(op.input) /\ IDEntry(op.input).s = <<"7">>
    /\ OnlyCall("UpdateDomainRecord") /\ op.calls[1].id = 7
    /\ op.err = NoError

\* C2: Delete of a record with no provider data, or with provider data that
\* has no "id" entry, returns a local error, issues no remote call and leaves
\* the remote store as it was.
C2_DeleteWithoutIDIsLocalError ==
    (op.name = "delete" /\ ~CarriesID(op.input)) =>
        /\ op.err \in {<<"record does not have provider data with ID">>,
                       <<"record does not have ID in provider data">>}
        /\ op.remoteErr = NoError
        /\ op.calls = <<>>
        /\ store = op.before

C2_Witness ==
    /\ op.name = "delete"
    /\ op.input.kind = "TXT" /\ op.input.ProviderData.t = "map" /\ ~CarriesID(op.input)
    /\ op.err = <<"record does not have ID in provider data">>
    /\ Len(store) = 2

\* C3: a decoded record is either of one of the seven specific kinds, with
\* provider data exactly {"id": the wire ID in decimal}, or a generic record
\* with no provider data.
C3_DecodedProviderData ==
    phase = "decoded" =>
        \/ /\ out.kind \in SpecificKinds
           /\ out.ProviderData = MapValue("id" :> StringValue(Itoa(wire.ID)))
        \/ /\ out.kind = "RR"
           /\ "ProviderData" \notin DOMAIN out

C3_Witness ==
    /\ phase = "decoded" /\ src = NilRecord
    /\ out.kind = "CAA"
    /\ out.ProviderData.m["id"].s = <<"1", "0", "8">>

\* C4: every record ListRecords returns carries provider data with an "id"
\* entry, so that a listed record given to Upsert is updated and a listed
\* record given to Delete reaches the remote delete.
C4_ListedRecordsCarryID ==
    /\ (op.name = "list" /\ op.err = NoError) =>
          \A i \in 1..Len(op.records) : CarriesID(op.records[i])
    /\ \A i \in 1..Len(op.before) :
          op.input = listedRecords(Zone, op.before)[i] =>
              /\ op.name = "upsert" => OnlyCall("UpdateDomainRecord")
              /\ op.name = "delete" => OnlyCall("DeleteDomainRecord")

\* C5: a successful Upsert returns the decoded server response, whatever the
\* input was; a failed remote call returns no record and the remote error as
\* it came, after one attempt.
C5_UpsertReturnsDecodedResponse ==
    (op.name = "upsert" /\ ~op.panicked) =>
        /\ op.err = NoError =>
              /\ op.resp # NoWire
              /\ op.record = convertToLibdnsRecord(Zone, op.resp)
        /\ op.err # NoError => op.record = NilRecord
        /\ op.remoteErr # NoError => (op.err = op.remoteErr /\ Len(op.calls) = 1)

C5_Witness ==
    /\ op.name = "upsert" /\ op.err = NoError
    /\ op.input.kind = "RR" /\ op.record.kind = "MX"
    /\ RR(op.input).Type # RR(op.record).Type

\* a record whose fields are in the documented format: a whole number of
\* seconds, a zone-relative name, a valid address, an SRV target that is one
\* word, a CAA tag without a space
Canonical(record) ==
    /\ record.TTL >= 0 /\ record.TTL % Second = 0
    /\ RelativeName(record.Name, Zone) = record.Name
    /\ record.kind = "Address" => IsValid(record.IP)
    /\ record.kind = "SRV" => Fields(record.Target) = <<record.Target>>
    /\ record.kind = "CAA" => IndexOf(record.Tag, " ") = 0

\* the semantic fields the round trip is about: kind, name, TTL and the
\* fields of the kind (for SRV: priority, weight, port, target)
KindFields(record) ==
    CASE record.kind = "Address" -> <<record.IP>>
      [] record.kind = "TXT" -> <<record.Text>>
      [] record.kind \in {"CNAME", "NS"} -> <<record.Target>>
      [] record.kind = "MX" -> <<record.Preference, record.Target>>
      [] record.kind = "SRV" ->
            <<record.Priority, record.Weight, record.Port, record.Target>>
      [] record.kind = "CAA" -> <<record.Flags, record.Tag, record.Value>>
      [] OTHER -> <<>>

RoundTripped == phase = "decoded" /\ src # NilRecord /\ Canonical(src)

\* whether a name starts with "_" and has at least two dot-separated parts
Splittable(name) == HasPrefix(name, <<"_">>) /\ IndexOf(name, ".") > 0
\* what follows the second dot of a name (nothing when it has one dot)
AfterSecondDot(name) ==
    LET rest == SubSeq(name, IndexOf(name, ".") + 1, Len(name)) IN
    IF IndexOf(rest, ".") = 0 THEN <<>>
    ELSE SubSeq(rest, IndexOf(rest, ".") + 1, Len(rest))

\* C6 as stated: encoding a canonical record of a supported kind as create
\* and update do, and decoding the wire record, reproduces its kind, name,
\* TTL and kind-specific fields.
C6_RoundTrip ==
    RoundTripped =>
        /\ out.kind = src.kind
        /\ out.Name = src.Name
        /\ out.TTL = src.TTL
        /\ KindFields(out) = KindFields(src)

\* C6 amended: the round trip reproduces kind, TTL and the kind-specific
\* fields, and the name too, except that a Service record whose name starts
\* with "_" and has at least two dot-separated parts comes back with the
\* name that follows its second part.
C6_RoundTripButSRVName ==
    RoundTripped =>
        /\ out.kind = src.kind
        /\ out.TTL = src.TTL
        /\ KindFields(out) = KindFields(src)
        /\ out.Name = IF src.kind = "SRV" /\ Splittable(src.Name)
                      THEN AfterSecondDot(src.Name)
                      ELSE src.Name

C6_Witness ==
    /\ RoundTripped
    /\ src.kind = "SRV" /\ src.Name = <<"_", "s", ".", "_", "t", ".", "h">>
    /\ out.kind = "SRV" /\ out.Name = <<"h">> /\ out.Port = 65535
    /\ out.TTL = 300 * Second

\* the wire records the claim calls malformed or of unknown type
Malformed(w) ==
    LET type == ToUpper(w.Type)
        sp == IndexOf(w.Target, " ")
        words == Fields(w.Target)
        three == SplitN(w.Target, " ", 3)
    IN
    \/ type \notin {sA, sAAAA, sTXT, sCNAME, sMX, sSRV, sNS, sCAA}
    \/ type \in {sA, sAAAA} /\ ~IsValid(ParseAddr(w.Target))
    \/ type = sMX /\ (sp = 0 \/ ~AtoiOk(SubSeq(w.Target, 1, sp - 1)))
    \/ type = sSRV /\ ~(Len(words) = 4 /\ \A i \in 1..3 : AtoiOk(words[i]))
    \/ type = sCAA /\ ~(Len(three) = 3 /\ AtoiOk(three[1]))

\* C7: a successful remote list of n wire records gives n records in the
\* same order, and listing fails only when the remote call does; a wire
\* record of unknown type or with malformed data comes back as a generic
\* record with the wire type and data as they were.
C7_ListKeepsEveryRecord ==
    op.name = "list" =>
        /\ op.err = NoError <=> op.remoteErr = NoError
        /\ op.remoteErr = NoError =>
              /\ Len(op.records) = Len(op.before)
              /\ \A i \in 1..Len(op.before) :
                    /\ i <= Len(op.records)
                    /\ op.records[i] = convertToLibdnsRecord(Zone, op.before[i])
                    /\ Malformed(op.before[i]) =>
                          /\ op.records[i].kind = "RR"
                          /\ op.records[i].Type = op.before[i].Type
                          /\ op.records[i].Data = op.before[i].Target

C7_Witness ==
    /\ op.name = "list" /\ op.err = NoError
    /\ Len(op.records) = 2
    /\ Malformed(op.before[1]) /\ op.before[1].Type = <<"S", "V", "C", "B">>
    /\ ~Malformed(op.before[2]) /\ op.records[2].kind = "MX"

\* C8: under any interleaving of init calls the handle is constructed and
\* configured once; once the flag is set the handle stays as configured, and
\* no caller returns from init before that.
C8_InitOnce ==
    /\ built.new <= 1 /\ built.token <= 1 /\ built.url <= 1 /\ built.version <= 1
    /\ done =>
          /\ built.new = 1
          /\ built.token = (IF cfg.APIToken # "" THEN 1 ELSE 0)
          /\ built.url = (IF cfg.APIURL # "" THEN 1 ELSE 0)
          /\ built.version = (IF cfg.APIVersion # "" THEN 1 ELSE 0)
          /\ client = configured(cfg)
    /\ \A p \in Procs : pc[p] = "returned" => done

C8_Witness ==
    /\ done
    /\ \A p \in Procs : calls[p] = MaxCalls /\ pc[p] = "returned"
    /\ client = [Token |-> "tok", BaseURL |-> "default", APIVersion |-> "v4"]

\* C9: when the "id" string in a record's provider data does not parse as an
\* integer, Upsert and Delete return a local error and issue no remote call;
\* Upsert does not create the record instead.
C9_MalformedIDIsLocalError ==
    (/\ op.name \in {"upsert", "delete"}
     /\ CarriesIDString(op.input)
     /\ ~AtoiOk(IDEntry(op.input).s)) =>
        /\ op.err # NoError
        /\ op.remoteErr = NoError
        /\ op.calls = <<>>
        /\ op.record = NilRecord
        /\ store = op.before

C9_Witness ==
    /\ op.name = "upsert"
    /\ CarriesIDString(op.input) /\ IDEntry(op.input).s = <<"4", "x">>
    /\ op.err = <<"strconv.Atoi">>
    /\ Len(store) < MaxStore

\* C10: an SRV wire record whose target is four whitespace-separated fields,
\* the first three integers, decodes to a Service record with those integers
\* as priority, weight and port and the fourth field as target; service and
\* transport are the first two parts of a name that starts with "_" and has
\* at least two parts, without their "_", and the name is what follows the
\* second part; otherwise they are empty and the name is unchanged.  Any
\* other SRV target decodes to a generic record.
C10_SRVDecode ==
    (phase = "decoded" /\ ToUpper(wire.Type) = sSRV) =>
        LET words == Fields(wire.Target)
            name == RelativeName(wire.Name, Zone)
            parts == Split(name, ".")
        IN
        IF Len(words) = 4 /\ \A i \in 1..3 : AtoiOk(words[i])
        THEN /\ out.kind = "SRV"
             /\ out.Priority = AtoiVal(words[1])
             /\ out.Weight = AtoiVal(words[2])
             /\ out.Port = AtoiVal(words[3])
             /\ out.Target = words[4]
             /\ IF Splittable(name)
                THEN /\ out.Service = TrimPrefix(parts[1], <<"_">>)
                     /\ out.Transport = TrimPrefix(parts[2], <<"_">>)
                     /\ out.Name = AfterSecondDot(name)
                ELSE /\ out.Service = <<>>
                     /\ out.Transport = <<>>
                     /\ out.Name = name
        ELSE out.kind = "RR"

====
